---- MODULE Spec2Model ----
(***************************************************************************)
(* Model of the autoglow order backend (src/index.js): the POST            *)
(* /api/orders handler as a chain of callbacks over a mysql2 connection    *)
(* pool and a transactional store.  One action per callback; the store's   *)
(* execution of a statement and the firing of that statement's callback    *)
(* form one step, since the handler does nothing in between.               *)
(*                                                                         *)
(* Store semantics: a statement that reports an error had no effect (a     *)
(* failed write wrote nothing, a failed COMMIT committed nothing, a failed *)
(* ROLLBACK rolled nothing back); a transaction's writes are private to    *)
(* its connection until COMMIT; START TRANSACTION on a connection that     *)
(* still has a transaction open commits that transaction first (MySQL's    *)
(* implicit commit); the upsert holds a row lock on users[phone] until the *)
(* transaction ends.  The pool is mysql2's: a released connection goes to  *)
(* the oldest queued getConnection callback, else to the free list.        *)
(***************************************************************************)
EXTENDS Integers, Sequences, FiniteSets, TLC

\* ---- bounds ----
\* NumRequests: POST /api/orders requests, numbered in order of arrival.
\* ConnectionLimit: the pool's connectionLimit (10 in createPool), scaled down so
\* that NumRequests exceeds it and requests queue.
\* MaxItems: longest items array of a request.
\* NumWriters, NumGets: the POST requests and the GET requests of ReadSpec.
NumRequests == 3
ConnectionLimit == 2
MaxItems == 2
NumWriters == 2
NumGets == 1

Reqs == 1..NumRequests
Conns == 1..ConnectionLimit
Writers == 1..NumWriters
Gets == (NumRequests + 1)..(NumRequests + NumGets)
Phones == {"555", "777"}

\* ---- request payloads (req.body) ----
\* Each request carries its own name and address, so that every row is
\* attributable to the request that wrote it.
CustName(r) == r
CustAddress(r) == 100 + r
Product(i) == [name |-> i, price |-> 10 * i]
ItemList(k) == [i \in 1..k |-> Product(i)]

NoCustomer == [phone |-> "", name |-> 0, address |-> 0]

ValidBodies(r) ==
  { [hasCustomer |-> TRUE, hasItems |-> TRUE,
     customer |-> [phone |-> p, name |-> CustName(r), address |-> CustAddress(r)],
     items |-> ItemList(k), total |-> 50, paymentMethod |-> "COD"]
    : p \in Phones, k \in 1..MaxItems }

Bodies(r) ==
  { [hasCustomer |-> hc, hasItems |-> hi,
     customer |-> IF hc THEN [phone |-> p, name |-> CustName(r), address |-> CustAddress(r)]
                        ELSE NoCustomer,
     items |-> IF hi THEN ItemList(k) ELSE << >>, total |-> 50, paymentMethod |-> "COD"]
    : hc \in BOOLEAN, hi \in BOOLEAN, p \in Phones, k \in 0..MaxItems }

NoBody == [hasCustomer |-> FALSE, hasItems |-> FALSE, customer |-> NoCustomer,
           items |-> << >>, total |-> 0, paymentMethod |-> ""]

\* Variant: the validation without the items.length test.
InvalidNoLength(b) == ~b.hasCustomer \/ ~b.hasItems

\* if (!customer || !items || items.length === 0)
Invalid(b) == ~b.hasCustomer \/ ~b.hasItems \/ Len(b.items) = 0

\* ---- store rows ----
NoRow == [name |-> 0, city |-> 0]
NoUsers == [p \in Phones |-> NoRow]
NoTx == [open |-> FALSE, users |-> NoUsers, orders |-> {}, items |-> << >>]
OpenTx == [open |-> TRUE, users |-> NoUsers, orders |-> {}, items |-> << >>]

NoResponse == [status |-> 0, orderId |-> 0]

\* SELECT * FROM products ORDER BY id DESC
Products == [i \in 1..MaxItems |-> [id |-> MaxItems + 1 - i, name |-> MaxItems + 1 - i,
                                   price |-> 10 * (MaxItems + 1 - i)]]
NoGetResponse == [status |-> 0, user |-> NoRow, orders |-> {}, products |-> << >>]

VARIABLES
  pc,          \* per request: the callback it is waiting for
  body,        \* per request: req.body
  conn,        \* per request: the pool connection bound to `connection`
  orderId,     \* per request: result.insertId of STEP B
  resp,        \* per request: the HTTP response sent
  nresp,       \* per request: number of responses sent
  acquired,    \* per request: connections delivered to its callback
  released,    \* per request: calls of connection.release()
  rollbacks,   \* per request: calls of connection.rollback()
  free,        \* pool: connections not leased
  queue,       \* pool: callbacks waiting for a connection
  tx,          \* per connection: the session's transaction
  users,       \* committed table users
  orders,      \* committed table orders
  order_items, \* committed table order_items
  nextOrderId, \* AUTO_INCREMENT of orders.id
  placed,      \* per phone: the request whose placement committed last
  failedAt,    \* per request: the step whose callback reported an error
  waited,      \* per request: whether its getConnection callback was queued
  gpc,         \* per GET request: the query callback it is waiting for
  gphone,      \* per GET request: req.params.phone ("" for /api/products)
  gconn,       \* per GET request: the pool connection its db.query runs on
  guser,       \* per GET request: userResult[0]
  gresp,       \* per GET request: the HTTP response sent
  gnresp,      \* per GET request: number of responses sent
  gerr,        \* per GET request: the query whose callback reported an error
  gafter       \* per GET request: the POST requests answered 200 before it arrived

vars == <<pc, body, conn, orderId, resp, nresp, acquired, released, rollbacks,
          free, queue, tx, users, orders, order_items, nextOrderId, placed, failedAt,
          waited, gpc, gphone, gconn, guser, gresp, gnresp, gerr, gafter>>

gvars == <<gpc, gphone, gconn, guser, gresp, gnresp, gerr, gafter>>
grest == <<gphone, guser, gresp, gnresp, gerr, gafter>>

Init ==
  /\ pc = [r \in Reqs |-> "new"]
  /\ body = [r \in Reqs |-> NoBody]
  /\ conn = [r \in Reqs |-> 0]
  /\ orderId = [r \in Reqs |-> 0]
  /\ resp = [r \in Reqs |-> NoResponse]
  /\ nresp = [r \in Reqs |-> 0]
  /\ acquired = [r \in Reqs |-> 0]
  /\ released = [r \in Reqs |-> 0]
  /\ rollbacks = [r \in Reqs |-> 0]
  /\ free = Conns
  /\ queue = << >>
  /\ tx = [c \in Conns |-> NoTx]
  /\ users = NoUsers
  /\ orders = {}
  /\ order_items = << >>
  /\ nextOrderId = 1
  /\ placed = [p \in Phones |-> 0]
  /\ failedAt = [r \in Reqs |-> ""]
  /\ waited = [r \in Reqs |-> FALSE]
  /\ gpc = [g \in Gets |-> "new"]
  /\ gphone = [g \in Gets |-> ""]
  /\ gconn = [g \in Gets |-> 0]
  /\ guser = [g \in Gets |-> NoRow]
  /\ gresp = [g \in Gets |-> NoGetResponse]
  /\ gnresp = [g \in Gets |-> 0]
  /\ gerr = [g \in Gets |-> ""]
  /\ gafter = [g \in Gets |-> {}]


\* ---- the store ----
\* The tables as they are once transaction t is committed on top of them.
UsersAfter(t) == [p \in Phones |-> IF t.users[p] # NoRow THEN t.users[p] ELSE users[p]]
\* Variant: a commit that rewrites the shipping address of the phone's earlier
\* orders with the address it stores in users.
OrdersAfterRewrite(t) ==
  { IF t.users[o.user_phone] # NoRow
      THEN [o EXCEPT !.shipping_address = t.users[o.user_phone].city]
      ELSE o : o \in orders } \cup t.orders

OrdersAfter(t) == orders \cup t.orders
ItemsAfter(t) == order_items \o t.items

\* InnoDB row lock on users[phone]: held by an open transaction that wrote the row.
RowLocked(c, phone) ==
  \E d \in Conns \ {c} : tx[d].open /\ tx[d].users[phone] # NoRow

\* [customer.phone, customer.name, customer.address] -> users(phone, name, city)
UserRow(customer) == [name |-> customer.name, city |-> customer.address]

\* [customer.phone, total, 'Processing', paymentMethod, customer.address]
OrderRow(id, b) ==
  [id |-> id, user_phone |-> b.customer.phone, total_amount |-> b.total,
   status |-> "Processing", payment_method |-> b.paymentMethod,
   shipping_address |-> b.customer.address]

\* Variant: a map that keeps the first item only.
OrderItemsDataFirstOnly(id, items) ==
  [i \in 1..1 |->
     [order_id |-> id, product_name |-> items[i].name, price |-> items[i].price,
      quantity |-> 1]]

\* items.map(item => [orderId, item.name, item.price, 1])
OrderItemsData(id, items) ==
  [i \in 1..Len(items) |->
     [order_id |-> id, product_name |-> items[i].name, price |-> items[i].price,
      quantity |-> 1]]

\* ---- the pool ----
Leased == Conns \ free

\* The pool gives connection c to the oldest queued callback, if any: a POST
\* request's getConnection callback, or a GET request's db.query.
Granted(p) == IF p = "userq" THEN "user" ELSE IF p = "ordersq" THEN "orders" ELSE "products"
PcGrant(f) ==
  IF queue # << >> /\ Head(queue) \in Reqs THEN [f EXCEPT ![Head(queue)] = "connect"] ELSE f
ConnGrant(f, c) ==
  IF queue # << >> /\ Head(queue) \in Reqs THEN [f EXCEPT ![Head(queue)] = c] ELSE f
GpcGrant(f) ==
  IF queue # << >> /\ Head(queue) \in Gets THEN [f EXCEPT ![Head(queue)] = Granted(@)] ELSE f
GconnGrant(f, c) ==
  IF queue # << >> /\ Head(queue) \in Gets THEN [f EXCEPT ![Head(queue)] = c] ELSE f

\* Variant: a release that puts the connection on the free list even when a
\* callback is queued.
ReleaseNoHandoff(r) ==
  /\ released' = [released EXCEPT ![r] = @ + 1]
  /\ pc' = [pc EXCEPT ![r] = "done"]
  /\ conn' = [conn EXCEPT ![r] = 0]
  /\ queue' = queue
  /\ free' = free \cup {conn[r]}
  /\ UNCHANGED <<gpc, gconn>>

\* connection.release(), after which the request is finished: the connection
\* goes to the oldest queued callback, or back to the free list.
Release(r) ==
  /\ released' = [released EXCEPT ![r] = @ + 1]
  /\ pc' = PcGrant([pc EXCEPT ![r] = "done"])
  /\ conn' = ConnGrant([conn EXCEPT ![r] = 0], conn[r])
  /\ gpc' = GpcGrant(gpc)
  /\ gconn' = GconnGrant(gconn, conn[r])
  /\ queue' = IF queue # << >> THEN Tail(queue) ELSE queue
  /\ free' = IF queue # << >> THEN free ELSE free \cup {conn[r]}

\* res.status(s).json(...)
Send(r, s, id) ==
  /\ resp' = [resp EXCEPT ![r] = [status |-> s, orderId |-> id]]
  /\ nresp' = [nresp EXCEPT ![r] = @ + 1]

\* connection.rollback(cb)
CallRollback(r) ==
  /\ failedAt' = [failedAt EXCEPT ![r] = pc[r]]
  /\ rollbacks' = [rollbacks EXCEPT ![r] = @ + 1]
  /\ pc' = [pc EXCEPT ![r] = "rollback"]

\* Requests are numbered in order of arrival.
Arrives(r) == pc[r] = "new" /\ (IF r = 1 THEN TRUE ELSE pc[r - 1] # "new")

\* ---- POST /api/orders ----
\* Validation fails: 400, nothing else.
PostOrdersInvalid(r) ==
  /\ Arrives(r)
  /\ \E b \in Bodies(r) :
       /\ Invalid(b)
       /\ body' = [body EXCEPT ![r] = b]
  /\ pc' = [pc EXCEPT ![r] = "done"]
  /\ Send(r, 400, 0)
  /\ UNCHANGED <<conn, orderId, acquired, released, rollbacks, free, queue, tx,
                 users, orders, order_items, nextOrderId, placed, failedAt>>
  /\ UNCHANGED waited
  /\ UNCHANGED gvars

\* Validation passes: db.getConnection(cb) takes a connection or queues cb.
PostOrders(r) ==
  /\ Arrives(r)
  /\ \E b \in Bodies(r) :
       /\ ~Invalid(b)
       /\ body' = [body EXCEPT ![r] = b]
  /\ IF free # {}
     THEN /\ \E c \in free :
               /\ free' = free \ {c}
               /\ conn' = [conn EXCEPT ![r] = c]
          /\ pc' = [pc EXCEPT ![r] = "connect"]
          /\ UNCHANGED <<queue, waited>>
     ELSE /\ queue' = Append(queue, r)
          /\ pc' = [pc EXCEPT ![r] = "queued"]
          /\ waited' = [waited EXCEPT ![r] = TRUE]
          /\ UNCHANGED <<free, conn>>
  /\ UNCHANGED <<orderId, resp, nresp, acquired, released, rollbacks, tx,
                 users, orders, order_items, nextOrderId, placed, failedAt>>
  /\ UNCHANGED gvars

\* getConnection callback, no error: connection.beginTransaction(cb).
GetConnectionOk(r) ==
  /\ pc[r] = "connect"
  /\ acquired' = [acquired EXCEPT ![r] = @ + 1]
  /\ pc' = [pc EXCEPT ![r] = "begin"]
  /\ UNCHANGED <<body, conn, orderId, resp, nresp, released, rollbacks, free, queue,
                 tx, users, orders, order_items, nextOrderId, placed, failedAt>>
  /\ UNCHANGED waited
  /\ UNCHANGED gvars

\* getConnection callback, error: 500.  The pool drops the connection that
\* failed and serves the oldest queued callback with its slot.
GetConnectionErr(r) ==
  /\ pc[r] = "connect"
  /\ pc' = PcGrant([pc EXCEPT ![r] = "done"])
  /\ conn' = ConnGrant([conn EXCEPT ![r] = 0], conn[r])
  /\ gpc' = GpcGrant(gpc)
  /\ gconn' = GconnGrant(gconn, conn[r])
  /\ queue' = IF queue # << >> THEN Tail(queue) ELSE queue
  /\ free' = IF queue # << >> THEN free ELSE free \cup {conn[r]}
  /\ Send(r, 500, 0)
  /\ failedAt' = [failedAt EXCEPT ![r] = pc[r]]
  /\ UNCHANGED <<body, orderId, acquired, released, rollbacks, tx,
                 users, orders, order_items, nextOrderId, placed>>
  /\ UNCHANGED waited
  /\ UNCHANGED grest

\* beginTransaction callback, no error: STEP A is sent.  START TRANSACTION
\* commits whatever transaction the session still had open.
BeginOk(r) ==
  /\ pc[r] = "begin"
  /\ users' = UsersAfter(tx[conn[r]])
  /\ orders' = OrdersAfter(tx[conn[r]])
  /\ order_items' = ItemsAfter(tx[conn[r]])
  /\ tx' = [tx EXCEPT ![conn[r]] = OpenTx]
  /\ pc' = [pc EXCEPT ![r] = "user"]
  /\ UNCHANGED <<body, conn, orderId, resp, nresp, acquired, released, rollbacks,
                 free, queue, nextOrderId, placed, failedAt>>
  /\ UNCHANGED waited
  /\ UNCHANGED gvars

\* beginTransaction callback, error: release, 500.
BeginErr(r) ==
  /\ pc[r] = "begin"
  /\ Release(r)
  /\ Send(r, 500, 0)
  /\ failedAt' = [failedAt EXCEPT ![r] = pc[r]]
  /\ UNCHANGED <<body, orderId, acquired, rollbacks, tx,
                 users, orders, order_items, nextOrderId, placed>>
  /\ UNCHANGED waited
  /\ UNCHANGED grest

\* STEP A callback, no error: the upsert is in the transaction, STEP B is sent.
UserOk(r) ==
  /\ pc[r] = "user"
  /\ ~RowLocked(conn[r], body[r].customer.phone)
  /\ tx' = [tx EXCEPT ![conn[r]].users[body[r].customer.phone] = UserRow(body[r].customer)]
  /\ pc' = [pc EXCEPT ![r] = "order"]
  /\ UNCHANGED <<body, conn, orderId, resp, nresp, acquired, released, rollbacks,
                 free, queue, users, orders, order_items, nextOrderId, placed, failedAt>>
  /\ UNCHANGED waited
  /\ UNCHANGED gvars

\* STEP A callback, error: rollback.
UserErr(r) ==
  /\ pc[r] = "user"
  /\ CallRollback(r)
  /\ UNCHANGED <<body, conn, orderId, resp, nresp, acquired, released,
                 free, queue, tx, users, orders, order_items, nextOrderId, placed>>
  /\ UNCHANGED waited
  /\ UNCHANGED gvars

\* Variant: STEP B where the store hands out the same insertId again.
OrderOkSameId(r) ==
  /\ pc[r] = "order"
  /\ orderId' = [orderId EXCEPT ![r] = nextOrderId]
  /\ nextOrderId' = nextOrderId
  /\ tx' = [tx EXCEPT ![conn[r]].orders = @ \cup {OrderRow(nextOrderId, body[r])}]
  /\ pc' = [pc EXCEPT ![r] = "items"]
  /\ UNCHANGED <<body, conn, resp, nresp, acquired, released, rollbacks,
                 free, queue, users, orders, order_items, placed, failedAt, waited>>
  /\ UNCHANGED gvars

\* STEP B callback, no error: orderId = result.insertId, STEP C is sent.
OrderOk(r) ==
  /\ pc[r] = "order"
  /\ orderId' = [orderId EXCEPT ![r] = nextOrderId]
  /\ nextOrderId' = nextOrderId + 1
  /\ tx' = [tx EXCEPT ![conn[r]].orders = @ \cup {OrderRow(nextOrderId, body[r])}]
  /\ pc' = [pc EXCEPT ![r] = "items"]
  /\ UNCHANGED <<body, conn, resp, nresp, acquired, released, rollbacks,
                 free, queue, users, orders, order_items, placed, failedAt>>
  /\ UNCHANGED waited
  /\ UNCHANGED gvars

\* STEP B callback, error: rollback.
OrderErr(r) ==
  /\ pc[r] = "order"
  /\ CallRollback(r)
  /\ UNCHANGED <<body, conn, orderId, resp, nresp, acquired, released,
                 free, queue, tx, users, orders, order_items, nextOrderId, placed>>
  /\ UNCHANGED waited
  /\ UNCHANGED gvars

\* STEP C callback, no error: the bulk insert is in the transaction, commit is sent.
ItemsOk(r) ==
  /\ pc[r] = "items"
  /\ tx' = [tx EXCEPT ![conn[r]].items = @ \o OrderItemsData(orderId[r], body[r].items)]
  /\ pc' = [pc EXCEPT ![r] = "commit"]
  /\ UNCHANGED <<body, conn, orderId, resp, nresp, acquired, released, rollbacks,
                 free, queue, users, orders, order_items, nextOrderId, placed, failedAt>>
  /\ UNCHANGED waited
  /\ UNCHANGED gvars

\* Variant: STEP C's error branch releasing without a rollback.
ItemsErrNoRollback(r) ==
  /\ pc[r] = "items"
  /\ failedAt' = [failedAt EXCEPT ![r] = pc[r]]
  /\ Release(r)
  /\ Send(r, 500, 0)
  /\ UNCHANGED <<body, orderId, acquired, rollbacks, tx,
                 users, orders, order_items, nextOrderId, placed, waited>>
  /\ UNCHANGED grest

\* STEP C callback, error: rollback.
ItemsErr(r) ==
  /\ pc[r] = "items"
  /\ CallRollback(r)
  /\ UNCHANGED <<body, conn, orderId, resp, nresp, acquired, released,
                 free, queue, tx, users, orders, order_items, nextOrderId, placed>>
  /\ UNCHANGED waited
  /\ UNCHANGED gvars

\* STEP D callback, no error: the transaction is committed; release, 200.
CommitOk(r) ==
  /\ pc[r] = "commit"
  /\ users' = UsersAfter(tx[conn[r]])
  /\ orders' = OrdersAfter(tx[conn[r]])
  /\ order_items' = ItemsAfter(tx[conn[r]])
  /\ placed' = [placed EXCEPT ![body[r].customer.phone] = r]
  /\ tx' = [tx EXCEPT ![conn[r]] = NoTx]
  /\ Release(r)
  /\ Send(r, 200, orderId[r])
  /\ UNCHANGED <<body, orderId, acquired, rollbacks, nextOrderId, failedAt>>
  /\ UNCHANGED waited
  /\ UNCHANGED grest

\* Variant: STEP D's error branch answering as if the commit had succeeded.
CommitErrReportsSuccess(r) ==
  /\ pc[r] = "commit"
  /\ Release(r)
  /\ Send(r, 200, orderId[r])
  /\ UNCHANGED <<body, orderId, acquired, rollbacks, tx,
                 users, orders, order_items, nextOrderId, placed, failedAt, waited>>
  /\ UNCHANGED grest

\* STEP D callback, error: rollback.
CommitErr(r) ==
  /\ pc[r] = "commit"
  /\ CallRollback(r)
  /\ UNCHANGED <<body, conn, orderId, resp, nresp, acquired, released,
                 free, queue, tx, users, orders, order_items, nextOrderId, placed>>
  /\ UNCHANGED waited
  /\ UNCHANGED gvars

\* rollback callback, the transaction was rolled back: release, 500.
RollbackOk(r) ==
  /\ pc[r] = "rollback"
  /\ tx' = [tx EXCEPT ![conn[r]] = NoTx]
  /\ Release(r)
  /\ Send(r, 500, 0)
  /\ UNCHANGED <<body, orderId, acquired, rollbacks,
                 users, orders, order_items, nextOrderId, placed, failedAt>>
  /\ UNCHANGED waited
  /\ UNCHANGED grest

\* Variant: a rollback callback that answers without releasing.
RollbackErrNoRelease(r) ==
  /\ pc[r] = "rollback"
  /\ pc' = [pc EXCEPT ![r] = "done"]
  /\ Send(r, 500, 0)
  /\ UNCHANGED <<body, conn, orderId, acquired, released, rollbacks, free, queue, tx,
                 users, orders, order_items, nextOrderId, placed, failedAt, waited>>
  /\ UNCHANGED gvars

\* rollback callback, the rollback itself failed: the callback takes no error
\* argument, so it releases and answers 500 all the same.
RollbackErr(r) ==
  /\ pc[r] = "rollback"
  /\ Release(r)
  /\ Send(r, 500, 0)
  /\ UNCHANGED <<body, orderId, acquired, rollbacks, tx,
                 users, orders, order_items, nextOrderId, placed, failedAt>>
  /\ UNCHANGED waited
  /\ UNCHANGED grest

Next ==
  \E r \in Reqs :
    \/ PostOrdersInvalid(r)
    \/ PostOrders(r)
    \/ GetConnectionOk(r)
    \/ GetConnectionErr(r)
    \/ BeginOk(r)
    \/ BeginErr(r)
    \/ UserOk(r)
    \/ UserErr(r)
    \/ OrderOk(r)
    \/ OrderErr(r)
    \/ ItemsOk(r)
    \/ ItemsErr(r)
    \/ CommitOk(r)
    \/ CommitErr(r)
    \/ RollbackOk(r)
    \/ RollbackErr(r)

Spec == Init /\ [][Next]_vars


\* The store never fails: the callbacks of one request, without their error branches.
StepOk(r) ==
  \/ PostOrders(r)
  \/ GetConnectionOk(r)
  \/ BeginOk(r)
  \/ UserOk(r)
  \/ OrderOk(r)
  \/ ItemsOk(r)
  \/ CommitOk(r)

NextOk == \E r \in Reqs : StepOk(r)

\* The event loop runs every callback that is ready, and the store answers
\* every statement: weak fairness of each request's next step.
LiveSpec == Init /\ [][NextOk]_vars /\ \A r \in Reqs : WF_vars(StepOk(r))


\* ---- GET /api/products, GET /api/user/:phone ----
\* db.query(sql, cb) takes a pool connection (or queues for one), runs the
\* statement on it and gives the connection back when the statement is done.
\* A statement on a connection whose session still has a transaction open runs
\* inside that transaction and sees its writes.

\* SELECT * FROM users WHERE phone = ?   (NoRow: userResult.length === 0)
UsersSeen(c, phone) ==
  IF tx[c].open /\ tx[c].users[phone] # NoRow THEN tx[c].users[phone] ELSE users[phone]

\* SELECT * FROM orders WHERE user_phone = ?   (the order of the rows is not modelled)
OrdersSeen(c, phone) ==
  {o \in orders \cup (IF tx[c].open THEN tx[c].orders ELSE {}) : o.user_phone = phone}

GetArrives(g) == gpc[g] = "new" /\ (IF g = NumRequests + 1 THEN TRUE ELSE gpc[g - 1] # "new")

\* db.query called from the route handler: no connection is held.
Query(g, q) ==
  /\ IF free # {}
     THEN /\ \E c \in free :
               /\ free' = free \ {c}
               /\ gconn' = [gconn EXCEPT ![g] = c]
          /\ gpc' = [gpc EXCEPT ![g] = q]
          /\ queue' = queue
     ELSE /\ queue' = Append(queue, g)
          /\ gpc' = [gpc EXCEPT ![g] = IF q = "user" THEN "userq" ELSE "productsq"]
          /\ UNCHANGED <<gconn, free>>
  /\ UNCHANGED <<pc, conn>>

\* The statement is done, the response is sent: the connection is given back.
GetDone(g) ==
  /\ gpc' = GpcGrant([gpc EXCEPT ![g] = "done"])
  /\ gconn' = GconnGrant([gconn EXCEPT ![g] = 0], gconn[g])
  /\ pc' = PcGrant(pc)
  /\ conn' = ConnGrant(conn, gconn[g])
  /\ queue' = IF queue # << >> THEN Tail(queue) ELSE queue
  /\ free' = IF queue # << >> THEN free ELSE free \cup {gconn[g]}

\* Variant: the second db.query issued while the first query's connection is
\* still held.
GetRequeryHolding(g) ==
  IF free # {}
  THEN /\ \E c \in free :
            /\ gconn' = [gconn EXCEPT ![g] = c]
            /\ free' = free \ {c}
       /\ gpc' = [gpc EXCEPT ![g] = "orders"]
       /\ UNCHANGED <<pc, conn, queue>>
  ELSE /\ queue' = Append(queue, g)
       /\ gpc' = [gpc EXCEPT ![g] = "ordersq"]
       /\ UNCHANGED <<pc, conn, gconn, free>>

\* The first statement is done and the callback calls db.query again: the
\* connection is given back and the second query takes one or queues.
GetRequery(g) ==
  IF queue # << >>
  THEN /\ gpc' = GpcGrant([gpc EXCEPT ![g] = "ordersq"])
       /\ gconn' = GconnGrant([gconn EXCEPT ![g] = 0], gconn[g])
       /\ pc' = PcGrant(pc)
       /\ conn' = ConnGrant(conn, gconn[g])
       /\ queue' = Append(Tail(queue), g)
       /\ free' = free
  ELSE /\ \E c \in free \cup {gconn[g]} :
            /\ gconn' = [gconn EXCEPT ![g] = c]
            /\ free' = (free \cup {gconn[g]}) \ {c}
       /\ gpc' = [gpc EXCEPT ![g] = "orders"]
       /\ UNCHANGED <<pc, conn, queue>>

GetSend(g, s, u, o, ps) ==
  /\ gresp' = [gresp EXCEPT ![g] = [status |-> s, user |-> u, orders |-> o, products |-> ps]]
  /\ gnresp' = [gnresp EXCEPT ![g] = @ + 1]

postVars == <<body, orderId, resp, nresp, acquired, released, rollbacks, tx, users, orders,
              order_items, nextOrderId, placed, failedAt, waited>>

\* app.get('/api/products'): db.query(sql, cb).
GetProducts(g) ==
  /\ GetArrives(g)
  /\ Query(g, "products")
  /\ gafter' = [gafter EXCEPT ![g] = {r \in Reqs : resp[r].status = 200}]
  /\ UNCHANGED <<gphone, guser, gresp, gnresp, gerr>>
  /\ UNCHANGED postVars

\* products callback, no error: res.json(results).
ProductsOk(g) ==
  /\ gpc[g] = "products"
  /\ GetDone(g)
  /\ GetSend(g, 200, NoRow, {}, Products)
  /\ UNCHANGED <<gphone, guser, gerr, gafter>>
  /\ UNCHANGED postVars

\* products callback, error: 500.
ProductsErr(g) ==
  /\ gpc[g] = "products"
  /\ GetDone(g)
  /\ GetSend(g, 500, NoRow, {}, << >>)
  /\ gerr' = [gerr EXCEPT ![g] = "products"]
  /\ UNCHANGED <<gphone, guser, gafter>>
  /\ UNCHANGED postVars

\* app.get('/api/user/:phone'): the first db.query.
GetUser(g) ==
  /\ GetArrives(g)
  /\ \E phone \in Phones : gphone' = [gphone EXCEPT ![g] = phone]
  /\ Query(g, "user")
  /\ gafter' = [gafter EXCEPT ![g] = {r \in Reqs : resp[r].status = 200}]
  /\ UNCHANGED <<guser, gresp, gnresp, gerr>>
  /\ UNCHANGED postVars

\* Variant: the users callback whose 404 branch does not return.
UserLookupOkNoReturn(g) ==
  /\ gpc[g] = "user"
  /\ guser' = [guser EXCEPT ![g] = UsersSeen(gconn[g], gphone[g])]
  /\ GetRequery(g)
  /\ IF UsersSeen(gconn[g], gphone[g]) = NoRow
     THEN GetSend(g, 404, NoRow, {}, << >>)
     ELSE UNCHANGED <<gresp, gnresp>>
  /\ UNCHANGED <<gphone, gerr, gafter>>
  /\ UNCHANGED postVars

\* Variant: the users callback without the userResult.length test.
UserLookupOkNoLength(g) ==
  /\ gpc[g] = "user"
  /\ guser' = [guser EXCEPT ![g] = UsersSeen(gconn[g], gphone[g])]
  /\ GetRequery(g)
  /\ UNCHANGED <<gphone, gresp, gnresp, gerr, gafter>>
  /\ UNCHANGED postVars

\* users callback, no error: 404 if no row, else the second db.query.
UserLookupOk(g) ==
  /\ gpc[g] = "user"
  /\ guser' = [guser EXCEPT ![g] = UsersSeen(gconn[g], gphone[g])]
  /\ IF UsersSeen(gconn[g], gphone[g]) = NoRow
     THEN /\ GetDone(g)
          /\ GetSend(g, 404, NoRow, {}, << >>)
     ELSE /\ GetRequery(g)
          /\ UNCHANGED <<gresp, gnresp>>
  /\ UNCHANGED <<gphone, gerr, gafter>>
  /\ UNCHANGED postVars

\* users callback, error: 500.
UserLookupErr(g) ==
  /\ gpc[g] = "user"
  /\ GetDone(g)
  /\ GetSend(g, 500, NoRow, {}, << >>)
  /\ gerr' = [gerr EXCEPT ![g] = "user"]
  /\ UNCHANGED <<gphone, guser, gafter>>
  /\ UNCHANGED postVars

\* orders callback, no error: res.json({ user: userResult[0], orders: orderResult }).
OrdersLookupOk(g) ==
  /\ gpc[g] = "orders"
  /\ GetDone(g)
  /\ GetSend(g, 200, guser[g], OrdersSeen(gconn[g], gphone[g]), << >>)
  /\ UNCHANGED <<gphone, guser, gerr, gafter>>
  /\ UNCHANGED postVars

\* orders callback, error: 500.
OrdersLookupErr(g) ==
  /\ gpc[g] = "orders"
  /\ GetDone(g)
  /\ GetSend(g, 500, NoRow, {}, << >>)
  /\ gerr' = [gerr EXCEPT ![g] = "orders"]
  /\ UNCHANGED <<gphone, guser, gafter>>
  /\ UNCHANGED postVars

GetStep(g) ==
  \/ GetProducts(g)
  \/ ProductsOk(g)
  \/ ProductsErr(g)
  \/ GetUser(g)
  \/ UserLookupOk(g)
  \/ UserLookupErr(g)
  \/ OrdersLookupOk(g)
  \/ OrdersLookupErr(g)

PostStep(r) ==
  \/ PostOrdersInvalid(r)
  \/ PostOrders(r)
  \/ GetConnectionOk(r)
  \/ GetConnectionErr(r)
  \/ BeginOk(r)
  \/ BeginErr(r)
  \/ UserOk(r)
  \/ UserErr(r)
  \/ OrderOk(r)
  \/ OrderErr(r)
  \/ ItemsOk(r)
  \/ ItemsErr(r)
  \/ CommitOk(r)
  \/ CommitErr(r)
  \/ RollbackOk(r)
  \/ RollbackErr(r)

\* The three routes together: NumWriters POST requests and NumGets GET requests.
ReadNext ==
  \/ \E r \in Writers : PostStep(r)
  \/ \E g \in Gets : GetStep(g)

ReadSpec == Init /\ [][ReadNext]_vars

\* ---- what a request has written, as readers see it (the committed tables) ----
Failed(r) == resp[r].status = 500
Succeeded(r) == resp[r].status = 200
AllDone == \A r \in Reqs : pc[r] = "done"

UserVisible(r) == \E p \in Phones : users[p].name = CustName(r)
OrderVisible(r) == \E o \in orders : o.shipping_address = CustAddress(r)
ItemsVisible(r) ==
  orderId[r] # 0 /\ \E i \in 1..Len(order_items) : order_items[i].order_id = orderId[r]

ItemsOf(id) == SelectSeq(order_items, LAMBDA row : row.order_id = id)

\* C1: a POST /api/orders request that failed (at connect, begin, one of the
\* three writes, or commit) has left nothing in the committed tables: no users
\* row, no orders row and no order_items row written by it.
C1_FailedLeavesNothing ==
  \A r \in Reqs : Failed(r) => ~UserVisible(r) /\ ~OrderVisible(r) /\ ~ItemsVisible(r)

\* C2: every committed order has at least one committed order_items row.
C2_OrderHasItems ==
  \A o \in orders : Len(ItemsOf(o.id)) >= 1

\* C3 (as stated): every request that failed and released its connection had
\* called rollback on it.
C3_RollbackOnEveryFailure ==
  \A r \in Reqs : Failed(r) /\ released[r] > 0 => rollbacks[r] > 0

\* C3 (amended): a request whose failure came after the transaction had begun
\* (one of the three writes, or commit) calls rollback exactly once and releases
\* only after that; a request that failed at begin releases without a rollback;
\* a request that failed at connect calls neither.
C3_RollbackThenRelease ==
  \A r \in Reqs :
    /\ failedAt[r] \in {"user", "order", "items", "commit"} =>
         /\ rollbacks[r] = 1
         /\ pc[r] = "rollback" => released[r] = 0 /\ conn[r] # 0
         /\ pc[r] = "done" => released[r] = 1 /\ Failed(r)
    /\ failedAt[r] = "begin" => rollbacks[r] = 0 /\ released[r] = 1 /\ Failed(r)
    /\ failedAt[r] = "connect" => rollbacks[r] = 0 /\ released[r] = 0 /\ Failed(r)
    /\ failedAt[r] = "" => rollbacks[r] = 0 /\ ~Failed(r)

\* A request has failed at commit, rolled back and released.
C3_Witness ==
  \E r \in Reqs : failedAt[r] = "commit" /\ pc[r] = "done" /\ released[r] = 1
                  /\ rollbacks[r] = 1

\* C4: a request releases the connection it acquired exactly once, whatever
\* succeeded or failed, never one it did not acquire; once every request has
\* its response, no connection is leased.
C4_ReleasedExactlyOnce ==
  /\ \A r \in Reqs :
       /\ acquired[r] <= 1
       /\ released[r] <= acquired[r]
       /\ pc[r] = "done" => released[r] = acquired[r] /\ conn[r] = 0
       /\ pc[r] \in {"begin", "user", "order", "items", "commit", "rollback"} =>
            acquired[r] = 1 /\ released[r] = 0 /\ conn[r] \in Leased
  /\ AllDone => free = Conns /\ queue = << >>

\* Every request is answered: one succeeded, one failed at begin, one failed at
\* the items insert; each has released its connection.
C4_Witness ==
  /\ AllDone
  /\ \E r \in Reqs : Succeeded(r) /\ released[r] = 1
  /\ \E r \in Reqs : failedAt[r] = "begin" /\ released[r] = 1
  /\ \E r \in Reqs : failedAt[r] = "items" /\ released[r] = 1


\* C5: with more valid requests than connections and a store that never fails,
\* every request eventually has a success response, and no two success
\* responses carry the same orderId.
C5_AllEventuallySucceed ==
  /\ <>(\A r \in Reqs : Succeeded(r))
  /\ [](\A r, s \in Reqs :
          r # s /\ Succeeded(r) /\ Succeeded(s) => resp[r].orderId # resp[s].orderId)

\* Every request succeeded, and one of them had waited in the queue.
C5_Witness ==
  /\ NumRequests > ConnectionLimit
  /\ \A r \in Reqs : Succeeded(r)
  /\ \E r \in Reqs : waited[r]

Holders == {r \in Reqs : conn[r] # 0}
InQueue(r) == \E i \in 1..Len(queue) : queue[i] = r

C6_PoolInv ==
  /\ Cardinality(Holders) <= ConnectionLimit
  /\ \A r \in Holders : conn[r] \in Leased /\ \A s \in Holders \ {r} : conn[s] # conn[r]
  /\ \A r \in Reqs : pc[r] = "queued" <=> InQueue(r)
  /\ \A r \in Reqs : pc[r] = "queued" => nresp[r] = 0 /\ conn[r] = 0 /\ free = {}

C6_PoolStep ==
  /\ \A r \in Reqs :
       pc[r] = "new" /\ pc'[r] \notin {"new", "done"} =>
         IF free = {} THEN pc'[r] = "queued" /\ nresp'[r] = 0
                      ELSE pc'[r] = "connect" /\ conn'[r] \in free
  /\ \A r \in Reqs :
       queue # << >> /\ conn[r] # 0 /\ conn'[r] = 0 =>
         /\ pc'[Head(queue)] = "connect"
         /\ conn'[Head(queue)] = conn[r]
         /\ queue' = Tail(queue)

C7_LastWriteWins ==
  \A p \in Phones :
    users[p] = IF placed[p] = 0 THEN NoRow ELSE UserRow(body[placed[p]].customer)

\* C8: every committed users row has a committed order of that phone, and a
\* request that failed at the order insert or later has no users row of its own
\* committed.
C8_CustomerHasOrder ==
  /\ \A p \in Phones : users[p] # NoRow => \E o \in orders : o.user_phone = p
  /\ \A r \in Reqs :
       pc[r] = "done" /\ failedAt[r] \in {"order", "items", "commit"} => ~UserVisible(r)

Absent(b) == ~b.hasCustomer \/ ~b.hasItems \/ b.items = << >>

C9_Step ==
  \A r \in Reqs :
    pc[r] = "new" /\ pc'[r] # "new" /\ Absent(body'[r]) =>
      /\ pc'[r] = "done"
      /\ resp'[r].status = 400
      /\ UNCHANGED <<conn, free, queue, tx, users, orders, order_items, nextOrderId>>

\* C9: a request without customer, without items or with empty items is answered
\* 400 in the step that receives it, and that step changes neither the pool nor
\* any table; such a request never holds a connection.
C9_InvalidRejected ==
  /\ [][C9_Step]_vars
  /\ [](\A r \in Reqs : pc[r] # "new" /\ Absent(body[r]) =>
          resp[r].status = 400 /\ acquired[r] = 0 /\ conn[r] = 0 /\ ~waited[r])

\* A request with empty items was answered 400 while another request's
\* transaction was under way.
C9_Witness ==
  \E r \in Reqs :
    /\ body[r].hasCustomer /\ body[r].hasItems /\ body[r].items = << >>
    /\ resp[r].status = 400
    /\ \E s \in Reqs : pc[s] = "items"

C10_Step ==
  \A r \in Reqs :
    ~Succeeded(r) /\ Succeeded(r)' =>
      /\ pc[r] = "commit"
      /\ resp'[r].orderId = orderId[r]
      /\ OrderRow(orderId[r], body[r]) \in orders' \ orders
      /\ ItemsOf(orderId[r])' = OrderItemsData(orderId[r], body[r].items)
      /\ users'[body[r].customer.phone] = UserRow(body[r].customer)
      /\ ~tx'[conn[r]].open

C10_Inv ==
  \A r \in Reqs :
    Succeeded(r) =>
      /\ resp[r].orderId = orderId[r]
      /\ OrderRow(orderId[r], body[r]) \in orders
      /\ ItemsOf(orderId[r]) = OrderItemsData(orderId[r], body[r].items)
      /\ \A s \in Reqs \ {r} : orderId[s] # orderId[r]

\* C10: the success response is sent in the step in which the commit succeeds,
\* carries the id of the order row this request inserted, and that row, all its
\* item rows and the request's users row are committed by that step.
C10_SuccessMeansCommitted == []C10_Inv /\ [][C10_Step]_vars

\* Two requests of the same phone have both succeeded.
C10_Witness ==
  \E r, s \in Reqs :
    /\ r # s /\ Succeeded(r) /\ Succeeded(s)
    /\ body[r].customer.phone = body[s].customer.phone
    /\ Len(body[r].items) = MaxItems


\* A row written by request r sits in a transaction that is still open.
PendingOf(r) ==
  \E c \in Conns :
    /\ tx[c].open
    /\ \/ \E p \in Phones : tx[c].users[p].name = CustName(r)
       \/ \E o \in tx[c].orders : o.shipping_address = CustAddress(r)

\* C13: once a request has its response, it is finished: its connection is
\* released, and nothing it wrote is left in an open transaction (the
\* transaction was committed or rolled back).
C13_ResolvedAtResponse ==
  \A r \in Reqs :
    nresp[r] > 0 =>
      /\ pc[r] = "done"
      /\ conn[r] = 0
      /\ released[r] = acquired[r]
      /\ ~PendingOf(r)

C14_Step ==
  /\ orders \subseteq orders'
  /\ Len(order_items') >= Len(order_items)
  /\ SubSeq(order_items', 1, Len(order_items)) = order_items

C14_Inv ==
  /\ \A o \in orders :
       \E r \in Reqs : o.id = orderId[r] /\ o = OrderRow(orderId[r], body[r])
                       /\ o.shipping_address = CustAddress(r)
  /\ \A o1, o2 \in orders : o1.id = o2.id => o1 = o2

\* C14: committed orders rows and order_items rows are never changed or removed;
\* every committed order keeps the shipping address of its own request, whatever
\* later placements of the same phone store in users.
C14_OrdersImmutable == []C14_Inv /\ [][C14_Step]_vars

\* Two placements of one phone succeeded: users holds the later one's address,
\* the earlier order still has its own.
C14_Witness ==
  \E r, s \in Reqs :
    /\ r # s /\ Succeeded(r) /\ Succeeded(s)
    /\ body[r].customer.phone = body[s].customer.phone
    /\ users[body[s].customer.phone].city = CustAddress(s)
    /\ \E o \in orders : o.id = orderId[r] /\ o.shipping_address = CustAddress(r)

PendingItemsOf(c, id) == SelectSeq(tx[c].items, LAMBDA row : row.order_id = id)

\* C15: a request that succeeded with k items has exactly k committed
\* order_items rows of its order id, the i-th carrying the i-th item's name and
\* price and quantity 1; at any time the rows of an order id, committed or in a
\* transaction, are all k or none.
C15_OneRowPerItem ==
  \A r \in Reqs :
    /\ Succeeded(r) =>
         /\ Len(ItemsOf(orderId[r])) = Len(body[r].items)
         /\ \A i \in 1..Len(body[r].items) :
              /\ ItemsOf(orderId[r])[i].order_id = resp[r].orderId
              /\ ItemsOf(orderId[r])[i].product_name = body[r].items[i].name
              /\ ItemsOf(orderId[r])[i].price = body[r].items[i].price
              /\ ItemsOf(orderId[r])[i].quantity = 1
    /\ orderId[r] # 0 =>
         /\ Len(ItemsOf(orderId[r])) \in {0, Len(body[r].items)}
         /\ \A c \in Conns :
              Len(PendingItemsOf(c, orderId[r])) \in {0, Len(body[r].items)}

\* One request succeeded with the longest item list, another failed at the items
\* insert and has no row.
C15_Witness ==
  \E r, s \in Reqs :
    /\ Succeeded(r) /\ Len(body[r].items) = MaxItems /\ MaxItems > 1
    /\ Len(ItemsOf(orderId[r])) = MaxItems
    /\ failedAt[s] = "items" /\ pc[s] = "done" /\ Len(ItemsOf(orderId[s])) = 0

\* C17: a connection that is back in the pool (free, or handed to the next
\* request, which has not begun its transaction) has no transaction open: an
\* open transaction is on a connection whose request is between begin and the
\* end of commit or rollback.
C17_NoOpenTxInPool ==
  \A c \in Conns :
    tx[c].open =>
      \E r \in Reqs : conn[r] = c /\ pc[r] \in {"user", "order", "items", "commit", "rollback"}


\* ---- claims about the GET routes (ReadSpec) ----
UserGets == {g \in Gets : gphone[g] # ""}

\* res.json({ user: userResult[0], orders: orderResult }): the order_items rows
\* in the response.  The handler reads users and orders only.
ItemsInResponse(g) == {}

\* C11 (as stated): a GET /api/user/:phone that arrived after a request's 200
\* and answers 200 for its phone includes the new order and all its items.
C11_OrderAndItemsReturned ==
  \A g \in UserGets : \A r \in gafter[g] :
    body[r].customer.phone = gphone[g] /\ gresp[g].status = 200 =>
      /\ OrderRow(orderId[r], body[r]) \in gresp[g].orders
      /\ \A i \in 1..Len(ItemsOf(orderId[r])) : ItemsOf(orderId[r])[i] \in ItemsInResponse(g)

\* C11 (amended): a GET /api/user/:phone that arrived after a request's 200 never
\* answers 404 for its phone, and when it answers 200 its orders include the new
\* order, whose item rows are all committed; the response carries the users row
\* and orders rows only, no item rows.
C11_NewOrderReturned ==
  \A g \in UserGets : \A r \in gafter[g] :
    body[r].customer.phone = gphone[g] =>
      /\ gresp[g].status # 404
      /\ gresp[g].status = 200 =>
           /\ OrderRow(orderId[r], body[r]) \in gresp[g].orders
           /\ gresp[g].user # NoRow
           /\ Len(ItemsOf(orderId[r])) = Len(body[r].items)
           /\ ItemsInResponse(g) = {}

\* A GET that arrived after the 200 of a placement with the longest item list
\* has answered 200 with that order.
C11_Witness ==
  \E g \in UserGets : \E r \in gafter[g] :
    /\ body[r].customer.phone = gphone[g]
    /\ Len(body[r].items) = MaxItems
    /\ gresp[g].status = 200
    /\ OrderRow(orderId[r], body[r]) \in gresp[g].orders

C12_Inv ==
  \A g \in UserGets :
    /\ gresp[g].status = 404 <=> (gpc[g] = "done" /\ gerr[g] = "" /\ guser[g] = NoRow)
    /\ gresp[g].status = 500 <=> gerr[g] \in {"user", "orders"}
    /\ gresp[g].status = 200 => gresp[g].user # NoRow /\ gresp[g].user = guser[g]
    /\ gresp[g].status \in {0, 200, 404, 500}

C12_Step ==
  \A g \in Gets :
    /\ gresp[g].status = 0 /\ gresp'[g].status = 404 =>
         gpc[g] = "user" /\ UsersSeen(gconn[g], gphone[g]) = NoRow
    /\ gpc[g] = "user" /\ gpc'[g] # "user" /\ gerr'[g] = ""
         /\ UsersSeen(gconn[g], gphone[g]) = NoRow =>
           gresp'[g].status = 404

\* C12: GET /api/user/:phone answers 404 exactly when its users query succeeded
\* and returned no row, 500 exactly when one of its two queries failed, and 200
\* only with a users row.
C12_NotFoundDistinct == []C12_Inv /\ [][C12_Step]_vars

\* A GET was answered 404 for a phone whose first placement is still in its
\* transaction.
C12_Witness ==
  \E g \in UserGets : \E r \in Writers :
    /\ gresp[g].status = 404
    /\ body[r].customer.phone = gphone[g]
    /\ pc[r] \in {"order", "items", "commit"}

C16_Step ==
  \A g \in Gets :
    /\ gpc[g] = "user" /\ guser'[g] # NoRow => guser'[g] = users[gphone[g]]
    /\ gpc[g] = "orders" /\ gresp'[g].status = 200 =>
         gresp'[g].orders = {o \in orders : o.user_phone = gphone[g]}

\* C16: each of the two reads of GET /api/user/:phone returns committed rows
\* only: the users row and the orders rows are those of the committed tables at
\* the time of the read.
C16_ReadsCommittedOnly == [][C16_Step]_vars

\* The response of a GET joins the users row of one placement with the order of a
\* later placement of the same phone, committed between its two reads.
C16_RaceReached ==
  \E g \in UserGets : \E r \in Writers :
    /\ gresp[g].status = 200
    /\ OrderRow(orderId[r], body[r]) \in gresp[g].orders
    /\ placed[gphone[g]] = r
    /\ gresp[g].user # UserRow(body[r].customer)

\* C18: every request of the three routes has sent exactly one response when it
\* is finished, none before, and never a second one.
C18_ExactlyOneResponse ==
  /\ \A r \in Reqs :
       /\ nresp[r] <= 1
       /\ pc[r] = "done" <=> nresp[r] = 1
       /\ resp[r].status # 0 <=> nresp[r] = 1
  /\ \A g \in Gets :
       /\ gnresp[g] <= 1
       /\ gpc[g] = "done" <=> gnresp[g] = 1
       /\ gresp[g].status # 0 <=> gnresp[g] = 1

\* All requests are answered: a POST with 500 after a rollback, a POST with 200,
\* a GET.
C18_Witness ==
  /\ \A r \in Writers : pc[r] = "done"
  /\ \A g \in Gets : gpc[g] = "done"
  /\ \E r \in Writers : Failed(r) /\ rollbacks[r] = 1
  /\ \E r \in Writers : Succeeded(r)

HoldersOf(c) == {r \in Reqs : conn[r] = c} \cup {g \in Gets : gconn[g] = c}

\* A holder's next callback on its success path: none of them asks the pool for
\* a connection before giving its own back.
PostProceeds(r) ==
  \/ GetConnectionOk(r)
  \/ BeginOk(r)
  \/ UserOk(r)
  \/ OrderOk(r)
  \/ ItemsOk(r)
  \/ CommitOk(r)
  \/ RollbackOk(r)
GetProceeds(g) ==
  \/ ProductsOk(g)
  \/ UserLookupOk(g)
  \/ OrdersLookupOk(g)

\* C19: a request waiting for a connection holds none, every leased connection
\* has exactly one holder, and whenever no connection is free some holder's next
\* callback can run.
C19_NoHoldAndWait ==
  /\ \A r \in Reqs : pc[r] = "queued" => conn[r] = 0
  /\ \A g \in Gets : gpc[g] \in {"userq", "ordersq", "productsq"} => gconn[g] = 0
  /\ \A c \in Leased : Cardinality(HoldersOf(c)) = 1
  /\ \A c \in free : HoldersOf(c) = {}
  /\ free = {} =>
       \/ \E r \in Reqs : conn[r] # 0 /\ ENABLED PostProceeds(r)
       \/ \E g \in Gets : gconn[g] # 0 /\ ENABLED GetProceeds(g)

\* The pool is exhausted by two POST requests in their transactions on the same
\* phone, one blocked by the other's row lock, and a GET is queued.
C19_Witness ==
  /\ free = {}
  /\ \E g \in Gets : gpc[g] \in {"userq", "ordersq", "productsq"}
  /\ \E r, s \in Writers :
       /\ pc[r] = "user" /\ RowLocked(conn[r], body[r].customer.phone)
       /\ pc[s] \in {"order", "items", "commit"}

====
